---- MODULE Spec2Model ----
(***************************************************************************)
(* State-machine model of the object pool allocator of                     *)
(* src/src/object_pool.hpp / object_pool.inl / object_pool.cpp:            *)
(* ObjectPoolBlock<T>, FixedObjectPool<T> and DynamicObjectPool<T>, with   *)
(* T = uint32_t as instantiated by the unit tests.                         *)
(*                                                                         *)
(* Pointers are byte addresses (NULL = 0).  The heap is a row of cells,    *)
(* each large enough for one block and aligned to MIN_BLOCK_ALIGN; the     *)
(* client (the test code holding the vector v) is modelled by the map      *)
(* `outstanding` from every pointer it still holds to the value it         *)
(* constructed there.  Both builds are modelled: with assertions (a failed *)
(* assertion aborts the program) and with NDEBUG (it is skipped).          *)
(***************************************************************************)
EXTENDS Integers, Sequences, FiniteSets, TLC

\* ---------------------------------------------------------------- bounds
MaxEntries == 2      \* largest entries_per_block / max_entries tried
MaxBlocks == 3       \* heap cells: at most this many blocks exist at once
MaxLive == 5         \* the client holds at most this many objects at once
MaxStored == 4       \* the same for the client that stores either value

\* ------------------------------------------------------ program constants
MIN_BLOCK_ALIGN == 64
SizeofIndex == 4     \* sizeof(index_t), index_t = uint32_t
SizeofT == 4         \* sizeof(T), T = uint32_t
AlignofT == 4        \* alignof(T), T = uint32_t
SizeofBlock == 8     \* sizeof(ObjectPoolBlock<T>): two index_t fields
SizeBits == 64       \* width of size_t

\* The constructor arguments of the test doubleNewAndDelete.
TestValue1 == 287454020      \* 0x11223344
TestValue2 == 1432778632     \* 0x55667788

NULL == 0
NoObj == 0           \* a slot of raw storage that holds no constructed T
Values == {TestValue1, TestValue2}

\* ------------------------------------------------------ unsigned integers
\* A value v of an unsigned type of width w is written as the integer r of
\* least magnitude with r = v modulo 2^w: 0, 1, 2, ... stand for themselves and
\* -1, -2, ... for 2^w - 1, 2^w - 2, ... (SIZE_MAX is -1).  Sums, differences
\* and products of such integers are those of the unsigned type; order and
\* division are not, and are given here.

\* a < b in the unsigned type.
UnsignedLess(a, b) == IF (a < 0) = (b < 0) THEN a < b ELSE b < 0

\* b^k modulo m.
RECURSIVE PowMod(_, _, _)
PowMod(b, k, m) ==
    IF k = 0 THEN 1 % m
    ELSE IF k % 2 = 0 THEN PowMod((b * b) % m, k \div 2, m)
    ELSE (b * PowMod(b, k - 1, m)) % m

\* 2^SizeBits modulo d: SIZE_MAX + 1 is SizeQuot * d + SizeRem(d) for the
\* quotient SizeQuot of SIZE_MAX + 1 by d.
SizeRem(d) == PowMod(2, SizeBits, d)

\* n % d in size_t.
SizeModOf(n, d) == IF n >= 0 THEN n % d ELSE (SizeRem(d) + n) % d

\* ---------------------------------------------------------- memory layout
\* Aligns n to align in size_t arithmetic: (1 + (n - 1) / align) * align.
\* Where n - 1 is 2^SizeBits - k (n is 0, or next to SIZE_MAX) the quotient
\* is SizeQuot + floor((SizeRem(align) - k) / align), and SizeQuot * align is
\* 2^SizeBits - SizeRem(align), which is -SizeRem(align) in size_t.
align_to(n, align) ==
    IF n - 1 >= 0 THEN (1 + (n - 1) \div align) * align
    ELSE (1 + (SizeRem(align) + (n - 1)) \div align) * align - SizeRem(align)

header_size == SizeofBlock
indices_size(e) == align_to(SizeofIndex * e, AlignofT)
entries_size(e) == SizeofT * e
block_size(e) == header_size + indices_size(e) + entries_size(e)

Cells == 1..MaxBlocks

indices_begin(this) == this + SizeofBlock
memory_begin(this, e) == indices_begin(this) + SizeofIndex * e
memory_offset(this, e) == memory_begin(this, e)

\* A freed (or never allocated) heap cell.
NoBlock == [freed |-> TRUE]

\* ------------------------------------------------------- ObjectPoolBlock<T>
\* Mutant: the free list is threaded from the last slot down to the first.
ObjectPoolBlock_descending(e) ==
    [free_head_index_ |-> e - 1,
     entries_per_block_ |-> e,
     indices |-> [i \in 0..(e - 1) |-> IF i = 0 THEN e ELSE i - 1],
     memory |-> [i \in 0..(e - 1) |-> NoObj]]

\* The constructor: every slot free, slot i linked to slot i + 1.
ObjectPoolBlock(e) ==
    [free_head_index_ |-> 0,
     entries_per_block_ |-> e,
     indices |-> [i \in 0..(e - 1) |-> i + 1],
     memory |-> [i \in 0..(e - 1) |-> NoObj]]

\* Mutant: the head of the free list is not advanced.
Block_new_object_head_kept(b, this, val) ==
    LET index == b.free_head_index_ IN
    IF index # b.entries_per_block_
    THEN [block |-> [b EXCEPT !.indices[index] = index,
                              !.memory[index] = val],
          ptr |-> memory_begin(this, b.entries_per_block_) + index * SizeofT,
          failed |-> IF b.indices[index] # index THEN "none"
                     ELSE "indices[index] != index"]
    ELSE [block |-> b, ptr |-> NULL, failed |-> "none"]

\* Mutant: the block reports full one slot early.
Block_new_object_full_early(b, this, val) ==
    LET index == b.free_head_index_ IN
    IF index + 1 # b.entries_per_block_ /\ index # b.entries_per_block_
    THEN [block |-> [b EXCEPT !.free_head_index_ = b.indices[index],
                              !.indices[index] = index,
                              !.memory[index] = val],
          ptr |-> memory_begin(this, b.entries_per_block_) + index * SizeofT,
          failed |-> IF b.indices[index] # index THEN "none"
                     ELSE "indices[index] != index"]
    ELSE [block |-> b, ptr |-> NULL, failed |-> "none"]

\* Mutant: the object is constructed at memory_begin(), not at its slot.
Block_new_object_first_slot(b, this, val) ==
    LET index == b.free_head_index_ IN
    IF index # b.entries_per_block_
    THEN [block |-> [b EXCEPT !.free_head_index_ = b.indices[index],
                              !.indices[index] = index,
                              !.memory[0] = val],
          ptr |-> memory_begin(this, b.entries_per_block_) + index * SizeofT,
          failed |-> IF b.indices[index] # index THEN "none"
                     ELSE "indices[index] != index"]
    ELSE [block |-> b, ptr |-> NULL, failed |-> "none"]

\* new_object on block b located at address this; the result carries the new
\* block contents, the returned pointer and the assertion that failed (if any).
Block_new_object(b, this, val) ==
    LET index == b.free_head_index_ IN
    IF index # b.entries_per_block_
    THEN [block |-> [b EXCEPT !.free_head_index_ = b.indices[index],
                              !.indices[index] = index,
                              !.memory[index] = val],
          ptr |-> memory_begin(this, b.entries_per_block_) + index * SizeofT,
          failed |-> IF b.indices[index] # index THEN "none"
                     ELSE "indices[index] != index"]
    ELSE [block |-> b, ptr |-> NULL, failed |-> "none"]

\* The range assertion of delete_object.
InRange == "ptr >= begin && ptr < (begin + entries_per_block_)"

\* Mutant: the freed slot keeps its occupancy marker.
Block_delete_object_mark_kept(b, this, ptr) ==
    IF ptr # NULL
    THEN LET begin == memory_begin(this, b.entries_per_block_)
             index == (ptr - begin) \div SizeofT
         IN IF ~(ptr >= begin /\ ptr < begin + b.entries_per_block_ * SizeofT)
            THEN [block |-> b,
                  failed |-> InRange]
            ELSE [block |-> [b EXCEPT !.memory[index] = NoObj,
                                      !.free_head_index_ = index],
                  failed |-> IF b.indices[index] = index THEN "none"
                             ELSE "indices[index] == index"]
    ELSE [block |-> b, failed |-> "none"]

\* Mutant: the freed slot is not made the head of the free list.
Block_delete_object_head_kept(b, this, ptr) ==
    IF ptr # NULL
    THEN LET begin == memory_begin(this, b.entries_per_block_)
             index == (ptr - begin) \div SizeofT
         IN IF ~(ptr >= begin /\ ptr < begin + b.entries_per_block_ * SizeofT)
            THEN [block |-> b,
                  failed |-> InRange]
            ELSE [block |-> [b EXCEPT !.memory[index] = NoObj,
                                      !.indices[index] = b.free_head_index_],
                  failed |-> IF b.indices[index] = index THEN "none"
                             ELSE "indices[index] == index"]
    ELSE [block |-> b, failed |-> "none"]

\* Mutant: the freed slot is linked in behind the head of the free list.
Block_delete_object_second(b, this, ptr) ==
    IF ptr # NULL
    THEN LET begin == memory_begin(this, b.entries_per_block_)
             index == (ptr - begin) \div SizeofT
             head == b.free_head_index_
         IN IF ~(ptr >= begin /\ ptr < begin + b.entries_per_block_ * SizeofT)
            THEN [block |-> b,
                  failed |-> InRange]
            ELSE [block |-> IF head = b.entries_per_block_
                            THEN [b EXCEPT !.memory[index] = NoObj,
                                           !.indices[index] = head,
                                           !.free_head_index_ = index]
                            ELSE [b EXCEPT !.memory[index] = NoObj,
                                           !.indices[index] = b.indices[head],
                                           !.indices[head] = index],
                  failed |-> IF b.indices[index] = index THEN "none"
                             ELSE "indices[index] == index"]
    ELSE [block |-> b, failed |-> "none"]

\* delete_object on block b located at address this. For a pointer outside
\* the payload range the result names the range assertion and holds the block
\* as a build with assertions leaves it; a build without goes on to write
\* indices[index] outside the index array, which is undefined behaviour: the
\* callers end in Undefined and take no block from this result.
Block_delete_object(b, this, ptr) ==
    IF ptr # NULL
    THEN LET begin == memory_begin(this, b.entries_per_block_)
             index == (ptr - begin) \div SizeofT
         IN IF ~(ptr >= begin /\ ptr < begin + b.entries_per_block_ * SizeofT)
            THEN [block |-> b,
                  failed |-> InRange]
            ELSE [block |-> [b EXCEPT !.memory[index] = NoObj,
                                      !.indices[index] = b.free_head_index_,
                                      !.free_head_index_ = index],
                  failed |-> IF b.indices[index] = index THEN "none"
                             ELSE "indices[index] == index"]
    ELSE [block |-> b, failed |-> "none"]

\* for_each: the pointers handed to the visitor, in call order.
RECURSIVE Block_for_each_from(_, _, _)
Block_for_each_from(b, this, i) ==
    IF i = b.entries_per_block_ THEN << >>
    ELSE (IF b.indices[i] = i
          THEN << memory_begin(this, b.entries_per_block_) + i * SizeofT >>
          ELSE << >>) \o Block_for_each_from(b, this, i + 1)

Block_for_each(b, this) == Block_for_each_from(b, this, 0)

\* destruct_all: the destructor runs on every object for_each visits (for a
\* trivially destructible T the calls are elided; the objects end all the same).
destruct_all(b) ==
    [b EXCEPT !.memory = [i \in DOMAIN b.memory |->
                             IF b.indices[i] = i THEN NoObj ELSE b.memory[i]]]

\* Mutant: the free list is rebuilt from the last slot down to slot 0.
Block_delete_all_reversed(b) ==
    [destruct_all(b) EXCEPT !.free_head_index_ = b.entries_per_block_ - 1,
                            !.indices = [i \in DOMAIN b.indices |->
                                            IF i = 0 THEN b.entries_per_block_ ELSE i - 1]]

\* Mutant: the links are rebuilt but the head of the free list is left alone.
Block_delete_all_head_kept(b) ==
    [destruct_all(b) EXCEPT !.indices = [i \in DOMAIN b.indices |-> i + 1]]

\* Mutant: only the head of the free list is reset.
Block_delete_all_head_only(b) == [b EXCEPT !.free_head_index_ = 0]

Block_delete_all(b) ==
    [destruct_all(b) EXCEPT !.free_head_index_ = 0,
                            !.indices = [i \in DOMAIN b.indices |-> i + 1]]

Block_num_allocations(b, this) == Len(Block_for_each(b, this))

\* ------------------------------------------------------------------- state
VARIABLES
    pool,                \* which class is under test: "Fixed" or "Dynamic"
    ndebug,              \* TRUE: assertions compiled out (NDEBUG)
    entries_per_block_,  \* DynamicObjectPool::entries_per_block_ / max_entries
    heap,                \* heap cell -> block contents, or NoBlock
    block_,              \* FixedObjectPool::block_ (address of its block)
    block_info_,         \* DynamicObjectPool::block_info_, indexed from 0
    num_blocks_,         \* DynamicObjectPool::num_blocks_
    free_block_index_,   \* DynamicObjectPool::free_block_index_
    outstanding,         \* client: pointer held -> value constructed there
    pc,                  \* "live", "aborted" (assertion failed), "destroyed" or
                         \* "undefined" (the program ran into undefined behaviour)
    assert_failed,       \* text of the assertion that aborted the program
    last,                \* the last completed call and what it returned
    run,                 \* client: successful new_object calls since the pool was last empty
    stale,               \* client: whether it keeps deleted pointers, and those it keeps
    lay                  \* a block of ObjectPoolBlock<T> for another element type T; a call of align_to

vars == << pool, ndebug, entries_per_block_, heap, block_, block_info_,
           num_blocks_, free_block_index_, outstanding, pc, assert_failed,
           last, run, stale, lay >>

NoStats == [num_blocks |-> 0, num_allocations |-> 0]
NoRun == [b |-> 0, k |-> 0]
NoStale == [track |-> FALSE, ptrs |-> {}]
NoLayout == [T |-> [size |-> SizeofT, align |-> AlignofT], this |-> NULL,
             block |-> NoBlock, ptr |-> NULL]

Call(op, arg, ptr) ==
    [op |-> op, arg |-> arg, ptr |-> ptr, visited |-> << >>, stats |-> NoStats]

\* abort(): a failed assertion ends the program where it stands.
Abort(text) ==
    /\ pc' = "aborted"
    /\ assert_failed' = text
    /\ UNCHANGED << pool, lay, ndebug, entries_per_block_, heap, block_, block_info_,
                    num_blocks_, free_block_index_, outstanding, last, run,
                    stale >>

\* The call has undefined behaviour: nothing is known of the program from here.
Undefined ==
    /\ pc' = "undefined"
    /\ UNCHANGED << pool, lay, ndebug, entries_per_block_, heap, block_, block_info_,
                    num_blocks_, free_block_index_, outstanding, assert_failed,
                    last, run, stale >>

\* The heap: every request of one pool has the same size and alignment
\* (block_size(entries_per_block_), MIN_BLOCK_ALIGN), so the heap is a row of
\* cells of that size rounded up to the alignment; cell c starts at address
\* c * CellSize. CellSizes holds the sizes for the pools tried, computed once.
CellSizeOf(e) == align_to(block_size(e), MIN_BLOCK_ALIGN)
CellSizes == [e \in 0..MaxEntries |-> CellSizeOf(e)]
CellSize ==
    IF entries_per_block_ \in DOMAIN CellSizes THEN CellSizes[entries_per_block_]
    ELSE CellSizeOf(entries_per_block_)
CellAddr(c) == c * CellSize
CellOf(addr) == addr \div CellSize

\* The block stored at address this.
BlockAt(this) == heap[CellOf(this)]

\* aligned_malloc: the possible results, NULL (posix_memalign failed) or the
\* address of any free cell; the C library promises no particular address.
aligned_malloc(size, align) ==
    LET span == align_to(size, align)
    IN {NULL} \cup {c * span : c \in {d \in Cells : heap[d] = NoBlock}}

\* Block::create: the possible results, NULL or the address of the new block.
create(e) == aligned_malloc(block_size(e), MIN_BLOCK_ALIGN)

\* realloc of the block_info_ array: TRUE for the resized array, FALSE for
\* nullptr (the array, which lives outside the heap of blocks, is not moved
\* in the model).
realloc == BOOLEAN

\* Client bookkeeping after a call.
Hold(ptr, val) ==
    [p \in (DOMAIN outstanding) \cup {ptr} |-> IF p = ptr THEN val ELSE outstanding[p]]
Forget(held, ptrs) == [p \in (DOMAIN held) \ ptrs |-> held[p]]
NextRun(held, nblocks, allocated) ==
    IF DOMAIN held = {} THEN [b |-> nblocks, k |-> 0]
    ELSE IF allocated /\ run.b # 0 THEN [b |-> run.b, k |-> run.k + 1]
    ELSE NoRun

\* A client that keeps the pointers it deleted: ptrs, if it held them, are
\* stale from now on; a pointer new_object returns is live again.
Deleted(ptrs) ==
    IF stale.track
    THEN [stale EXCEPT !.ptrs = @ \cup (ptrs \cap DOMAIN outstanding)]
    ELSE stale
Returned(ptr) == [stale EXCEPT !.ptrs = @ \ {ptr}]

\* --------------------------------------------------------- FixedObjectPool<T>
\* Every member function but delete_object(nullptr) reads or writes the block
\* through block_; with block_ == nullptr (the constructor's Block::create
\* failed, and the constructor does not test it) that call is undefined.
Fixed_calc_stats ==
    [num_blocks |-> 1, num_allocations |-> Block_num_allocations(BlockAt(block_), block_)]

Fixed_new_object(val) ==
    /\ pc = "live" /\ pool = "Fixed"
    /\ IF block_ = NULL THEN Undefined ELSE
       LET r == Block_new_object(BlockAt(block_), block_, val) IN
       IF ~ndebug /\ r.failed # "none" THEN Abort(r.failed)
       ELSE /\ heap' = [heap EXCEPT ![CellOf(block_)] = r.block]
            /\ outstanding' = IF r.ptr # NULL THEN Hold(r.ptr, val) ELSE outstanding
            /\ stale' = IF r.ptr # NULL THEN Returned(r.ptr) ELSE stale
            /\ last' = Call("new_object", NULL, r.ptr)
            /\ run' = NextRun(outstanding', 1, r.ptr # NULL)
            /\ UNCHANGED << pool, lay, ndebug, entries_per_block_, block_, block_info_,
                            num_blocks_, free_block_index_, pc, assert_failed >>

Fixed_delete_object(ptr) ==
    /\ pc = "live" /\ pool = "Fixed"
    /\ IF block_ = NULL
       THEN IF ptr # NULL THEN Undefined
            ELSE /\ last' = Call("delete_object", ptr, NULL)
                 /\ UNCHANGED << pool, lay, ndebug, stale, entries_per_block_, heap,
                                 block_, block_info_, num_blocks_, free_block_index_,
                                 outstanding, pc, assert_failed, run >>
       ELSE
       LET r == Block_delete_object(BlockAt(block_), block_, ptr) IN
       IF ~ndebug /\ r.failed # "none" THEN Abort(r.failed)
       ELSE IF r.failed = InRange THEN Undefined
       ELSE /\ heap' = [heap EXCEPT ![CellOf(block_)] = r.block]
            /\ outstanding' = Forget(outstanding, {ptr})
            /\ stale' = Deleted({ptr})
            /\ last' = Call("delete_object", ptr, NULL)
            /\ run' = NextRun(outstanding', 1, FALSE)
            /\ UNCHANGED << pool, lay, ndebug, entries_per_block_, block_, block_info_,
                            num_blocks_, free_block_index_, pc, assert_failed >>

Fixed_delete_all ==
    /\ pc = "live" /\ pool = "Fixed"
    /\ IF block_ = NULL THEN Undefined ELSE
       /\ heap' = [heap EXCEPT ![CellOf(block_)] = Block_delete_all(BlockAt(block_))]
       /\ outstanding' = Forget(outstanding, DOMAIN outstanding)
       /\ stale' = Deleted(DOMAIN outstanding)
       /\ last' = Call("delete_all", NULL, NULL)
       /\ run' = NextRun(outstanding', 1, FALSE)
       /\ UNCHANGED << pool, lay, ndebug, entries_per_block_, block_, block_info_,
                       num_blocks_, free_block_index_, pc, assert_failed >>

Fixed_for_each_visits == Block_for_each(BlockAt(block_), block_)

Fixed_for_each ==
    /\ pc = "live" /\ pool = "Fixed"
    /\ IF block_ = NULL THEN Undefined ELSE
       /\ last' = [Call("for_each", NULL, NULL) EXCEPT !.visited = Fixed_for_each_visits]
       /\ UNCHANGED << pool, lay, ndebug, stale, entries_per_block_, heap, block_,
                       block_info_, num_blocks_, free_block_index_, outstanding, pc,
                       assert_failed, run >>

Fixed_calc_stats_call ==
    /\ pc = "live" /\ pool = "Fixed"
    /\ IF block_ = NULL THEN Undefined ELSE
       /\ last' = [Call("calc_stats", NULL, NULL) EXCEPT !.stats = Fixed_calc_stats]
       /\ UNCHANGED << pool, lay, ndebug, stale, entries_per_block_, heap, block_,
                       block_info_, num_blocks_, free_block_index_, outstanding, pc,
                       assert_failed, run >>

\* Block::destroy: the block destructor destructs what is still allocated,
\* then the cell is freed. For nullptr and a trivially destructible T a build
\* without assertions touches nothing and frees nothing.
destroy(h, this) == IF this = NULL THEN h ELSE [h EXCEPT ![CellOf(this)] = NoBlock]

\* The assertion calls calc_stats, which reads the block.
Fixed_destructor ==
    /\ pc = "live" /\ pool = "Fixed"
    /\ IF ~ndebug /\ block_ = NULL THEN Undefined
       ELSE IF ~ndebug /\ Fixed_calc_stats.num_allocations # 0
       THEN Abort("calc_stats().num_allocations == 0")
       ELSE /\ heap' = destroy(heap, block_)
            /\ pc' = "destroyed"
            /\ last' = Call("~FixedObjectPool", NULL, NULL)
            /\ UNCHANGED << pool, lay, ndebug, stale, entries_per_block_, block_, block_info_,
                            num_blocks_, free_block_index_, outstanding,
                            assert_failed, run >>

\* ------------------------------------------------------- DynamicObjectPool<T>
\* Mutant: the cached free count of a new block is one short.
BlockInfo_one_short(this) ==
    [num_free_ |-> entries_per_block_ - 1,
     offset_ |-> memory_offset(this, entries_per_block_),
     block_ |-> this]

\* The record add_block writes for a block created at address this.
BlockInfo(this) ==
    [num_free_ |-> entries_per_block_,
     offset_ |-> memory_offset(this, entries_per_block_),
     block_ |-> this]

\* add_block after Block::create returned this (not NULL): block_info_ is
\* reallocated to n + 1 records and the record at the cursor is initialised.
\* The code does not test what realloc returns: with nullptr (resized is
\* FALSE) the record is written through a null pointer, which is undefined.
add_block(info, n, cursor, this, resized) ==
    [undefined |-> ~resized,
     info |-> IF resized
              THEN [i \in 0..n |-> IF i = cursor THEN BlockInfo(this) ELSE info[i]]
              ELSE << >>]

\* Mutant: the search passes over every block that is not empty.
RECURSIVE new_object_scan_skips_used(_, _, _)
new_object_scan_skips_used(info, n, i) ==
    IF i # n /\ info[i].num_free_ # entries_per_block_
    THEN new_object_scan_skips_used(info, n, i + 1) ELSE i

\* The search loop of new_object: the first index from i on whose block has
\* free space, or n.
RECURSIVE new_object_scan(_, _, _)
new_object_scan(info, n, i) ==
    IF i # n /\ info[i].num_free_ = 0 THEN new_object_scan(info, n, i + 1) ELSE i

\* An assertion of the tail of new_object fails: abort() ends the program
\* after the search set the cursor to found and, when the pool grew, after
\* add_block created the block, counted it and wrote its record (info1, heap1).
Dynamic_new_object_abort(text, info1, heap1, found) ==
    /\ pc' = "aborted"
    /\ assert_failed' = text
    /\ free_block_index_' = found
    /\ num_blocks_' = IF found = num_blocks_ THEN num_blocks_ + 1 ELSE num_blocks_
    /\ block_info_' = info1
    /\ heap' = heap1
    /\ UNCHANGED << pool, lay, ndebug, entries_per_block_, block_, outstanding,
                    last, run, stale >>

\* Mutant: the slot is handed out and num_free_ is left as it was.
Dynamic_new_object_construct_no_count(val, info1, heap1, found) ==
    LET p_info == info1[found]
        r == Block_new_object(heap1[CellOf(p_info.block_)], p_info.block_, val)
    IN IF ~ndebug /\ r.failed # "none"
       THEN Dynamic_new_object_abort(r.failed, info1, heap1, found)
       ELSE IF ~ndebug /\ r.ptr = NULL
       THEN Dynamic_new_object_abort("ptr != nullptr", info1, heap1, found)
       ELSE /\ free_block_index_' = found
            /\ num_blocks_' = IF found = num_blocks_ THEN num_blocks_ + 1 ELSE num_blocks_
            /\ heap' = [heap1 EXCEPT ![CellOf(p_info.block_)] = r.block]
            /\ block_info_' = info1
            /\ outstanding' = IF r.ptr # NULL THEN Hold(r.ptr, val) ELSE outstanding
            /\ stale' = IF r.ptr # NULL THEN Returned(r.ptr) ELSE stale
            /\ last' = Call("new_object", NULL, r.ptr)
            /\ run' = NextRun(outstanding', num_blocks_', r.ptr # NULL)
            /\ UNCHANGED << pool, lay, ndebug, entries_per_block_, block_, pc, assert_failed >>

\* The tail of new_object: construct the object in the block of record found
\* of info1 (heap contents heap1) and count the slot as used.
Dynamic_new_object_construct(val, info1, heap1, found) ==
    LET p_info == info1[found]
        r == Block_new_object(heap1[CellOf(p_info.block_)], p_info.block_, val)
    IN IF ~ndebug /\ r.failed # "none"
       THEN Dynamic_new_object_abort(r.failed, info1, heap1, found)
       ELSE IF ~ndebug /\ r.ptr = NULL
       THEN Dynamic_new_object_abort("ptr != nullptr", info1, heap1, found)
       ELSE /\ free_block_index_' = found
            /\ num_blocks_' = IF found = num_blocks_ THEN num_blocks_ + 1 ELSE num_blocks_
            /\ heap' = [heap1 EXCEPT ![CellOf(p_info.block_)] = r.block]
            /\ block_info_' = [info1 EXCEPT ![found].num_free_ = @ - 1]
            /\ outstanding' = IF r.ptr # NULL THEN Hold(r.ptr, val) ELSE outstanding
            /\ stale' = IF r.ptr # NULL THEN Returned(r.ptr) ELSE stale
            /\ last' = Call("new_object", NULL, r.ptr)
            /\ run' = NextRun(outstanding', num_blocks_', r.ptr # NULL)
            /\ UNCHANGED << pool, lay, ndebug, entries_per_block_, block_, pc, assert_failed >>

\* new_object(val) where Block::create, if the call comes to it, returns one
\* of answers (some of the results of create) and realloc, if the call comes
\* to it, the array (resized) or nullptr.
Dynamic_new_object(val, answers, resized) ==
    /\ pc = "live" /\ pool = "Dynamic"
    /\ IF ~ndebug /\ ~(free_block_index_ < num_blocks_)
       THEN Abort("free_block_index_ < num_blocks_")
       ELSE LET found == new_object_scan(block_info_, num_blocks_, free_block_index_) IN
            IF found = num_blocks_
            THEN \E this \in answers \cap create(entries_per_block_) :
                 IF this = NULL
                 THEN /\ free_block_index_' = found
                      /\ last' = Call("new_object", NULL, NULL)
                      /\ run' = NextRun(outstanding, num_blocks_, FALSE)
                      /\ UNCHANGED << pool, lay, ndebug, stale, entries_per_block_, heap, block_,
                                      block_info_, num_blocks_, outstanding, pc,
                                      assert_failed >>
                 ELSE LET added == add_block(block_info_, num_blocks_, found, this, resized)
                      IN IF added.undefined THEN Undefined
                         ELSE Dynamic_new_object_construct(
                                  val,
                                  added.info,
                                  [heap EXCEPT ![CellOf(this)] =
                                                   ObjectPoolBlock(entries_per_block_)],
                                  found)
            ELSE Dynamic_new_object_construct(val, block_info_, heap, found)

\* Mutant: the range test checks the upper end only.
RECURSIVE delete_object_scan_upper_only(_, _, _, _)
delete_object_scan_upper_only(info, n, i, ptr) ==
    IF i = n THEN n
    ELSE IF ptr < info[i].offset_ + entries_per_block_ * SizeofT
         THEN i
         ELSE delete_object_scan_upper_only(info, n, i + 1, ptr)

\* The search loop of delete_object: the first index from i on whose payload
\* range holds ptr, or n.
RECURSIVE delete_object_scan(_, _, _, _)
delete_object_scan(info, n, i, ptr) ==
    IF i = n THEN n
    ELSE IF /\ ptr >= info[i].offset_
            /\ ptr < info[i].offset_ + entries_per_block_ * SizeofT
         THEN i
         ELSE delete_object_scan(info, n, i + 1, ptr)

\* Mutant: the cursor is moved to the block of the freed slot, wherever it is.
lower_cursor_to_freed(free_block, cursor) == free_block

\* Mutant: the cursor is never lowered.
lower_cursor_never(free_block, cursor) == cursor

\* delete_object lowers the cursor to the block it freed a slot in.
lower_cursor(free_block, cursor) ==
    IF free_block < cursor THEN free_block ELSE cursor

Dynamic_delete_object(ptr) ==
    /\ pc = "live" /\ pool = "Dynamic"
    /\ LET free_block == delete_object_scan(block_info_, num_blocks_, 0, ptr) IN
       IF free_block = num_blocks_
       THEN /\ outstanding' = Forget(outstanding, {ptr})
            /\ stale' = Deleted({ptr})
            /\ last' = Call("delete_object", ptr, NULL)
            /\ run' = NextRun(outstanding', num_blocks_, FALSE)
            /\ UNCHANGED << pool, lay, ndebug, entries_per_block_, heap, block_,
                            block_info_, num_blocks_, free_block_index_, pc,
                            assert_failed >>
       ELSE LET p_info == block_info_[free_block]
                r == Block_delete_object(BlockAt(p_info.block_), p_info.block_, ptr)
            IN IF ~ndebug /\ r.failed # "none" THEN Abort(r.failed)
               ELSE IF r.failed = InRange THEN Undefined
               ELSE /\ heap' = [heap EXCEPT ![CellOf(p_info.block_)] = r.block]
                    /\ block_info_' =
                           [block_info_ EXCEPT ![free_block].num_free_ = @ + 1]
                    /\ free_block_index_' = lower_cursor(free_block, free_block_index_)
                    /\ outstanding' = Forget(outstanding, {ptr})
                    /\ stale' = Deleted({ptr})
                    /\ last' = Call("delete_object", ptr, NULL)
                    /\ run' = NextRun(outstanding', num_blocks_, FALSE)
                    /\ UNCHANGED << pool, lay, ndebug, entries_per_block_, block_,
                                    num_blocks_, pc, assert_failed >>

\* Mutant: delete_all also gives back every block but the first.
Dynamic_delete_all_shrinks ==
    /\ pc = "live" /\ pool = "Dynamic"
    /\ heap' = [c \in Cells |->
                   IF c = CellOf(block_info_[0].block_) THEN Block_delete_all(heap[c])
                   ELSE NoBlock]
    /\ block_info_' = [i \in 0..0 |->
                          [block_info_[i] EXCEPT !.num_free_ = entries_per_block_]]
    /\ num_blocks_' = 1
    /\ free_block_index_' = 0
    /\ outstanding' = Forget(outstanding, DOMAIN outstanding)
    /\ stale' = Deleted(DOMAIN outstanding)
    /\ last' = Call("delete_all", NULL, NULL)
    /\ run' = NextRun(outstanding', num_blocks_', FALSE)
    /\ UNCHANGED << pool, lay, ndebug, entries_per_block_, block_, pc, assert_failed >>

Dynamic_delete_all ==
    /\ pc = "live" /\ pool = "Dynamic"
    /\ heap' = [c \in Cells |->
                   IF \E i \in 0..(num_blocks_ - 1) : CellOf(block_info_[i].block_) = c
                   THEN Block_delete_all(heap[c]) ELSE heap[c]]
    /\ block_info_' = [i \in 0..(num_blocks_ - 1) |->
                          [block_info_[i] EXCEPT !.num_free_ = entries_per_block_]]
    /\ free_block_index_' = 0
    /\ outstanding' = Forget(outstanding, DOMAIN outstanding)
    /\ stale' = Deleted(DOMAIN outstanding)
    /\ last' = Call("delete_all", NULL, NULL)
    /\ run' = NextRun(outstanding', num_blocks_, FALSE)
    /\ UNCHANGED << pool, lay, ndebug, entries_per_block_, block_, num_blocks_, pc,
                    assert_failed >>

\* Mutant: the used record is copied over the empty one, not exchanged.
swap_overwrites(info, i, j) ==
    [k \in DOMAIN info |-> IF k = i THEN info[j] ELSE info[k]]

\* Mutant: the swap exchanges the block pointers and offsets, not the counts.
swap_counts_kept(info, i, j) ==
    [k \in DOMAIN info |->
        IF k = i THEN [info[j] EXCEPT !.num_free_ = info[i].num_free_]
        ELSE IF k = j THEN [info[i] EXCEPT !.num_free_ = info[j].num_free_]
        ELSE info[k]]

\* Mutant: the swap leaves the records where they are.
swap_nothing(info, i, j) == info

\* std::swap(block_info_[i], block_info_[j])
swap(info, i, j) ==
    [k \in DOMAIN info |-> IF k = i THEN info[j] ELSE IF k = j THEN info[i] ELSE info[k]]

\* Mutant: empty_index follows the latest empty record, not the first.
RECURSIVE reclaim_shuffle_last_empty(_, _, _, _, _)
reclaim_shuffle_last_empty(info, n, index, used_index, empty_index) ==
    IF ~(index < n) THEN [info |-> info, used_index |-> used_index]
    ELSE LET used == info[index].num_free_ # entries_per_block_
             u == IF used THEN index ELSE used_index
             e == IF ~used THEN index ELSE empty_index
         IN IF e < u /\ u # n
            THEN reclaim_shuffle_last_empty(swap(info, e, u), n, index + 1, e, e + 1)
            ELSE reclaim_shuffle_last_empty(info, n, index + 1, u, e)

\* Mutant: empty_index is not advanced after a swap.
RECURSIVE reclaim_shuffle_empty_kept(_, _, _, _, _)
reclaim_shuffle_empty_kept(info, n, index, used_index, empty_index) ==
    IF ~(index < n) THEN [info |-> info, used_index |-> used_index]
    ELSE LET used == info[index].num_free_ # entries_per_block_
             u == IF used THEN index ELSE used_index
             e == IF ~used /\ index < empty_index THEN index ELSE empty_index
         IN IF e < u /\ u # n
            THEN reclaim_shuffle_empty_kept(swap(info, e, u), n, index + 1, e, e)
            ELSE reclaim_shuffle_empty_kept(info, n, index + 1, u, e)

\* The first loop of reclaim_memory from index on: used records are shuffled
\* to the front; yields the records and the final used_index.
RECURSIVE reclaim_shuffle(_, _, _, _, _)
reclaim_shuffle(info, n, index, used_index, empty_index) ==
    IF ~(index < n) THEN [info |-> info, used_index |-> used_index]
    ELSE LET used == info[index].num_free_ # entries_per_block_
             u == IF used THEN index ELSE used_index
             e == IF ~used /\ index < empty_index THEN index ELSE empty_index
         IN IF e < u /\ u # n
            THEN reclaim_shuffle(swap(info, e, u), n, index + 1, e, e + 1)
            ELSE reclaim_shuffle(info, n, index + 1, u, e)

\* Mutant: the cursor is left at num_blocks_, the search loop is missing.
first_free_block_none(info, n, index) == n

\* The last loop of reclaim_memory: the first index whose block has free
\* space, or n.
RECURSIVE first_free_block(_, _, _)
first_free_block(info, n, index) ==
    IF index = n THEN n
    ELSE IF info[index].num_free_ # 0 THEN index
    ELSE first_free_block(info, n, index + 1)

\* With no block at all (the constructor's allocation failed) used_index
\* becomes 0 and the release loop, which starts at index 1 and stops at
\* index == num_blocks_ == 0, reads block_info_[1] of a null block_info_.
\* Mutant: when no block is used the last block index is kept, not index 0.
Dynamic_reclaim_memory_keeps_all(resized) ==
    /\ pc = "live" /\ pool = "Dynamic"
    /\ resized \in realloc
    /\ IF num_blocks_ = 0 \/ ~resized THEN Undefined
       ELSE
        /\ LET s == reclaim_shuffle(block_info_, num_blocks_, 0, num_blocks_, num_blocks_)
               used_index == IF s.used_index = num_blocks_ THEN num_blocks_ - 1
                             ELSE s.used_index
               released == {CellOf(s.info[index].block_) :
                                index \in (used_index + 1)..(num_blocks_ - 1)}
               n == used_index + 1
               info1 == [i \in 0..(n - 1) |-> s.info[i]]
           IN /\ heap' = [c \in Cells |-> IF c \in released THEN NoBlock ELSE heap[c]]
              /\ num_blocks_' = n
              /\ block_info_' = info1
              /\ free_block_index_' = first_free_block(info1, n, 0)
        /\ last' = Call("reclaim_memory", NULL, NULL)
        /\ run' = NextRun(outstanding, num_blocks_', FALSE)
        /\ UNCHANGED << pool, lay, ndebug, stale, entries_per_block_, block_, outstanding, pc,
                        assert_failed >>

\* reclaim_memory where realloc returns the array (resized) or nullptr; the
\* code does not test it, and the loop that follows reads block_info_[0].
Dynamic_reclaim_memory(resized) ==
    /\ pc = "live" /\ pool = "Dynamic"
    /\ resized \in realloc
    /\ IF num_blocks_ = 0 \/ ~resized THEN Undefined
       ELSE
        /\ LET s == reclaim_shuffle(block_info_, num_blocks_, 0, num_blocks_, num_blocks_)
               used_index == IF s.used_index = num_blocks_ THEN 0 ELSE s.used_index
               released == {CellOf(s.info[index].block_) :
                                index \in (used_index + 1)..(num_blocks_ - 1)}
               n == used_index + 1
               info1 == [i \in 0..(n - 1) |-> s.info[i]]
           IN /\ heap' = [c \in Cells |-> IF c \in released THEN NoBlock ELSE heap[c]]
              /\ num_blocks_' = n
              /\ block_info_' = info1
              /\ free_block_index_' = first_free_block(info1, n, 0)
        /\ last' = Call("reclaim_memory", NULL, NULL)
        /\ run' = NextRun(outstanding, num_blocks_', FALSE)
        /\ UNCHANGED << pool, lay, ndebug, stale, entries_per_block_, block_, outstanding, pc,
                        assert_failed >>

\* Mutant: only full blocks are visited.
RECURSIVE Dynamic_for_each_full_only(_)
Dynamic_for_each_full_only(i) ==
    IF i = num_blocks_ THEN << >>
    ELSE (IF block_info_[i].num_free_ = 0
          THEN Block_for_each(BlockAt(block_info_[i].block_), block_info_[i].block_)
          ELSE << >>) \o Dynamic_for_each_full_only(i + 1)

\* for_each: the pointers handed to the visitor, in call order, from block
\* index i on.
RECURSIVE Dynamic_for_each_from(_)
Dynamic_for_each_from(i) ==
    IF i = num_blocks_ THEN << >>
    ELSE (IF UnsignedLess(block_info_[i].num_free_, entries_per_block_)
          THEN Block_for_each(BlockAt(block_info_[i].block_), block_info_[i].block_)
          ELSE << >>) \o Dynamic_for_each_from(i + 1)

Dynamic_for_each_visits == Dynamic_for_each_from(0)

RECURSIVE Dynamic_num_allocations_from(_)
Dynamic_num_allocations_from(i) ==
    IF i = num_blocks_ THEN 0
    ELSE (IF UnsignedLess(block_info_[i].num_free_, entries_per_block_)
          THEN Block_num_allocations(BlockAt(block_info_[i].block_),
                                     block_info_[i].block_)
          ELSE 0) + Dynamic_num_allocations_from(i + 1)

Dynamic_calc_stats ==
    [num_blocks |-> num_blocks_, num_allocations |-> Dynamic_num_allocations_from(0)]

Dynamic_for_each ==
    /\ pc = "live" /\ pool = "Dynamic"
    /\ last' = [Call("for_each", NULL, NULL) EXCEPT !.visited = Dynamic_for_each_visits]
    /\ UNCHANGED << pool, lay, ndebug, stale, entries_per_block_, heap, block_, block_info_,
                    num_blocks_, free_block_index_, outstanding, pc,
                    assert_failed, run >>

Dynamic_calc_stats_call ==
    /\ pc = "live" /\ pool = "Dynamic"
    /\ last' = [Call("calc_stats", NULL, NULL) EXCEPT !.stats = Dynamic_calc_stats]
    /\ UNCHANGED << pool, lay, ndebug, stale, entries_per_block_, heap, block_, block_info_,
                    num_blocks_, free_block_index_, outstanding, pc,
                    assert_failed, run >>

\* The destructor only asserts; it releases nothing.
Dynamic_destructor ==
    /\ pc = "live" /\ pool = "Dynamic"
    /\ IF ~ndebug /\ Dynamic_calc_stats.num_allocations # 0
       THEN Abort("calc_stats().num_allocations == 0")
       ELSE /\ pc' = "destroyed"
            /\ last' = Call("~DynamicObjectPool", NULL, NULL)
            /\ UNCHANGED << pool, lay, ndebug, stale, entries_per_block_, heap, block_,
                            block_info_, num_blocks_, free_block_index_,
                            outstanding, assert_failed, run >>

\* ----------------------------------------------------------- specification
\* The members as the constructors leave them, for the outcomes of their
\* allocations; the client holds nothing yet.
Members(kind, nd, e, h, block, info, n, state) ==
    /\ pool = kind
    /\ ndebug = nd
    /\ entries_per_block_ = e
    /\ heap = h
    /\ block_ = block
    /\ block_info_ = info
    /\ num_blocks_ = n
    /\ free_block_index_ = 0
    /\ outstanding = << >>
    /\ pc = state
    /\ assert_failed = "none"
    /\ last = Call("constructor", NULL, NULL)
    /\ run = IF (kind = "Fixed" /\ block # NULL) \/ n # 0 THEN [b |-> 1, k |-> 0] ELSE NoRun
    /\ lay = NoLayout

\* The heap of a pool of blocks of e entries that holds one new block, at
\* address this, or none (this = NULL).
HeapWith(e, this) ==
    [c \in Cells |-> IF this # NULL /\ c = this \div CellSizeOf(e)
                     THEN ObjectPoolBlock(e) ELSE NoBlock]

\* What aligned_malloc returns on the empty heap of such a pool.
EmptyHeapAddrs(e) ==
    {NULL} \cup {c * CellSizeOf(e) : c \in Cells}

\* FixedObjectPool(max_entries) where Block::create returned this; the
\* constructor stores it untested, nullptr included.
FixedObjectPool(nd, e, this) ==
    Members("Fixed", nd, e, HeapWith(e, this), this, << >>, 0, "live")

\* DynamicObjectPool(e) where the constructor's Block::create returned this
\* and its realloc the array (resized) or nullptr: on this = NULL add_block
\* registers nothing and the constructor returns all the same; on nullptr
\* from realloc add_block writes through it and the constructor never returns.
DynamicObjectPool(nd, e, this, resized) ==
    IF this = NULL
    THEN Members("Dynamic", nd, e, HeapWith(e, NULL), NULL, << >>, 0, "live")
    ELSE IF ~resized
    THEN Members("Dynamic", nd, e, HeapWith(e, NULL), NULL, << >>, 0, "undefined")
    ELSE /\ entries_per_block_ = e
         /\ Members("Dynamic", nd, e, HeapWith(e, this), NULL,
                        add_block(<< >>, 0, 0, this, resized).info, 1, "live")

\* The state after a constructor whose allocations succeeded, the block at
\* address this.
InitPool(kind, nd, e, this) ==
    IF kind = "Fixed" THEN FixedObjectPool(nd, e, this)
    ELSE DynamicObjectPool(nd, e, this, TRUE)

\* The pools of the tests, constructed with every allocation answered, the
\* block at any address.
Init ==
    \E kind \in {"Fixed", "Dynamic"}, nd \in BOOLEAN, e \in 1..MaxEntries :
        /\ \E this \in EmptyHeapAddrs(e) \ {NULL} : InitPool(kind, nd, e, this)
        /\ stale = NoStale

\* What the client passes to delete_object: a pointer it holds, or nullptr.
Ptrs == (DOMAIN outstanding) \cup {NULL}
\* The client asks for a new object only while it holds fewer than MaxLive.
CanHoldMore == Cardinality(DOMAIN outstanding) < MaxLive
\* The client that stores either value holds fewer than MaxStored.
CanStoreMore == Cardinality(DOMAIN outstanding) < MaxStored

\* The calls of a client that stores either value and passes delete_object
\* only pointers it holds, on a C library that answers realloc and places a
\* new block at any free address or answers nullptr.
\* (calc_stats, which writes nothing, is called by the clients of
\* NextBookkeeping and NextCtor.)
Next ==
    \/ \E val \in Values : CanStoreMore /\ Fixed_new_object(val)
    \/ \E ptr \in Ptrs : Fixed_delete_object(ptr)
    \/ Fixed_delete_all
    \/ Fixed_for_each
    \/ Fixed_destructor
    \/ \E val \in Values :
          CanStoreMore /\ Dynamic_new_object(val, create(entries_per_block_), TRUE)
    \/ \E ptr \in Ptrs : Dynamic_delete_object(ptr)
    \/ Dynamic_delete_all
    \/ Dynamic_reclaim_memory(TRUE)
    \/ Dynamic_for_each
    \/ Dynamic_destructor

Spec == Init /\ [][Next]_vars

\* The constructors with every outcome of their allocations.
InitCtor ==
    \E nd \in BOOLEAN, e \in 1..MaxEntries :
        /\ \E this \in EmptyHeapAddrs(e) :
              \/ FixedObjectPool(nd, e, this)
              \/ \E resized \in realloc : DynamicObjectPool(nd, e, this, resized)
        /\ stale = NoStale

\* The same calls with every outcome of aligned_malloc and of realloc.
NextCtor ==
    \/ \E val \in Values : CanHoldMore /\ Fixed_new_object(val)
    \/ \E ptr \in Ptrs : Fixed_delete_object(ptr)
    \/ Fixed_delete_all
    \/ Fixed_for_each
    \/ Fixed_calc_stats_call
    \/ Fixed_destructor
    \/ \E val \in Values, resized \in realloc :
          CanHoldMore /\ Dynamic_new_object(val, create(entries_per_block_), resized)
    \/ \E ptr \in Ptrs : Dynamic_delete_object(ptr)
    \/ Dynamic_delete_all
    \/ \E resized \in realloc : Dynamic_reclaim_memory(resized)
    \/ Dynamic_for_each
    \/ Dynamic_calc_stats_call
    \/ Dynamic_destructor

SpecCtor == InitCtor /\ [][NextCtor]_vars

\* A client that only allocates (the filling loops of the tests): the pool is
\* as constructed and nothing has been deleted.
NextFresh ==
    \/ \E val \in Values : CanHoldMore /\ Fixed_new_object(val)
    \/ \E val \in Values :
          CanHoldMore /\ Dynamic_new_object(val, create(entries_per_block_), TRUE)

SpecFresh == Init /\ [][NextFresh]_vars

\* A client that stores the same value in every object (the pools construct
\* and destruct a T and never read it) and passes delete_object only pointers
\* it holds, on a C library that answers realloc and places a block at any
\* free address.
NextBookkeeping ==
    \/ CanHoldMore /\ Fixed_new_object(TestValue1)
    \/ \E ptr \in Ptrs : Fixed_delete_object(ptr)
    \/ Fixed_delete_all
    \/ Fixed_for_each
    \/ Fixed_calc_stats_call
    \/ Fixed_destructor
    \/ CanHoldMore /\ Dynamic_new_object(TestValue1, create(entries_per_block_), TRUE)
    \/ \E ptr \in Ptrs : Dynamic_delete_object(ptr)
    \/ Dynamic_delete_all
    \/ Dynamic_reclaim_memory(TRUE)
    \/ Dynamic_for_each
    \/ Dynamic_calc_stats_call
    \/ Dynamic_destructor

SpecBookkeeping == Init /\ [][NextBookkeeping]_vars

\* ------------------------------------------ ObjectPoolBlock<T> for any T
\* Block::create and new_object for an element type T = [size, align] other
\* than uint32_t; the block is used on its own, as a FixedObjectPool uses it.
MaxLayoutEntries == 4
Types == {[size |-> k * a, align |-> a] : k \in 1..2, a \in {1, 2, 4, 8, 16}}

T_indices_size(T, e) == align_to(SizeofIndex * e, T.align)
T_entries_size(T, e) == T.size * e
T_block_size(T, e) == header_size + T_indices_size(T, e) + T_entries_size(T, e)

\* What aligned_malloc(size, MIN_BLOCK_ALIGN) may return besides NULL.
AlignedAddrs == {c * MIN_BLOCK_ALIGN : c \in 1..MaxBlocks}

\* Block::create(e) returning this; with NULL from aligned_malloc nothing
\* happens.  The second assertion compares memory_begin() with the place the
\* size computation assumed for the payload.
Layout_create(T, e, this) ==
    /\ pc = "live" /\ pool = "Block" /\ lay.this = NULL
    /\ IF ~ndebug /\ indices_begin(this) # this + header_size
       THEN Abort("ptr->indices_begin() == ptr + header_size")
       ELSE IF ~ndebug /\ memory_begin(this, e) # this + header_size + T_indices_size(T, e)
       THEN Abort("ptr->memory_begin() == ptr + header_size + indices_size")
       ELSE /\ lay' = [T |-> T, this |-> this, block |-> ObjectPoolBlock(e), ptr |-> NULL]
            /\ last' = Call("create", NULL, this)
            /\ UNCHANGED << pool, ndebug, entries_per_block_, heap, block_,
                            block_info_, num_blocks_, free_block_index_,
                            outstanding, pc, assert_failed, run, stale >>

\* Block::new_object: the free list is that of any block; the object lies at
\* memory_begin() + index in units of sizeof(T). Constructing a T at an address
\* that is not a multiple of alignof(T) is undefined: the call returns that
\* pointer or the program is lost.
Layout_new_object(val) ==
    /\ pc = "live" /\ pool = "Block" /\ lay.this # NULL
    /\ LET r == Block_new_object(lay.block, lay.this, val)
           index == lay.block.free_head_index_
           ptr == IF r.ptr = NULL THEN NULL
                  ELSE memory_begin(lay.this, lay.block.entries_per_block_)
                           + index * lay.T.size
       IN IF ~ndebug /\ r.failed # "none" THEN Abort(r.failed)
          ELSE \/ /\ ptr % lay.T.align # 0
                  /\ Undefined
               \/ /\ lay' = [lay EXCEPT !.block = r.block, !.ptr = ptr]
                  /\ last' = Call("new_object", NULL, ptr)
                  /\ UNCHANGED << pool, ndebug, entries_per_block_, heap, block_,
                                  block_info_, num_blocks_, free_block_index_,
                                  outstanding, pc, assert_failed, run, stale >>

InitLayout ==
    /\ pool = "Block"
    /\ ndebug \in BOOLEAN
    /\ entries_per_block_ = 0
    /\ heap = [c \in Cells |-> NoBlock]
    /\ block_ = NULL
    /\ block_info_ = << >>
    /\ num_blocks_ = 0
    /\ free_block_index_ = 0
    /\ outstanding = << >>
    /\ pc = "live"
    /\ assert_failed = "none"
    /\ last = Call("none", NULL, NULL)
    /\ run = NoRun
    /\ stale = NoStale
    /\ lay = NoLayout

NextLayout ==
    \/ \E T \in Types, e \in 1..MaxLayoutEntries, this \in AlignedAddrs :
          Layout_create(T, e, this)
    \/ \E val \in {TestValue1} : Layout_new_object(val)

SpecLayout == InitLayout /\ [][NextLayout]_vars

\* ----------------------------------------------------------- align_to alone
\* align_to called on its own: lay holds the arguments, whether the call has
\* returned, and what it returned. The arguments are the small sizes and the
\* sizes next to the top of size_t, and every alignment up to MaxAlign.
MaxAlignArg == 20
MaxAlign == 16
AlignInputs == (0..MaxAlignArg) \cup {0 - k : k \in 1..MaxAlignArg}

InitAlign ==
    /\ pool = "align_to"
    /\ ndebug = TRUE
    /\ entries_per_block_ = 0
    /\ heap = [c \in Cells |-> NoBlock]
    /\ block_ = NULL
    /\ block_info_ = << >>
    /\ num_blocks_ = 0
    /\ free_block_index_ = 0
    /\ outstanding = << >>
    /\ pc = "live"
    /\ assert_failed = "none"
    /\ last = Call("none", NULL, NULL)
    /\ run = NoRun
    /\ stale = NoStale
    /\ \E n \in AlignInputs, align \in 1..MaxAlign :
          lay = [n |-> n, align |-> align, done |-> FALSE, result |-> 0]

Align_to_call ==
    /\ pc = "live" /\ pool = "align_to" /\ ~lay.done
    /\ lay' = [lay EXCEPT !.done = TRUE, !.result = align_to(lay.n, lay.align)]
    /\ UNCHANGED << pool, ndebug, entries_per_block_, heap, block_, block_info_,
                    num_blocks_, free_block_index_, outstanding, pc,
                    assert_failed, last, run, stale >>

NextAlign == Align_to_call

SpecAlign == InitAlign /\ [][NextAlign]_vars

\* ============================================================== properties
Max(a, b) == IF a >= b THEN a ELSE b
CeilDiv(a, b) == (a + b - 1) \div b

Live == DOMAIN outstanding
NumLive == Cardinality(Live)

\* The blocks the pool owns, by address.
OwnedBlocks ==
    IF pool = "Fixed" THEN {block_}
    ELSE {block_info_[i].block_ : i \in 0..(num_blocks_ - 1)}

\* The heap cells that hold a block.
Allocated == {c \in Cells : heap[c] # NoBlock}

\* The slot of its block that pointer p designates.
SlotOf(p) == (p - memory_begin(CellAddr(CellOf(p)), entries_per_block_)) \div SizeofT

\* p is the address of a slot of block this.
IsSlotOf(p, this) ==
    /\ CellAddr(CellOf(p)) = this
    /\ p >= memory_begin(this, entries_per_block_)
    /\ (p - memory_begin(this, entries_per_block_)) % SizeofT = 0
    /\ SlotOf(p) \in 0..(entries_per_block_ - 1)

\* What reading *p yields: the object constructed there, or NoObj.
Deref(p) ==
    IF CellOf(p) \in Allocated /\ IsSlotOf(p, CellAddr(CellOf(p)))
    THEN heap[CellOf(p)].memory[SlotOf(p)] ELSE NoObj

\* Slot p is marked occupied in a block the pool owns.
Occupied(p) ==
    /\ \E this \in OwnedBlocks : IsSlotOf(p, this)
    /\ CellOf(p) \in Allocated
    /\ heap[CellOf(p)].indices[SlotOf(p)] = SlotOf(p)

calc_stats == IF pool = "Fixed" THEN Fixed_calc_stats ELSE Dynamic_calc_stats

\* A step that completes the call op.
Completes(op) == pc' = "live" /\ last'.op = op

\* ----------------------------------------------------------------------- C1
\* C1: while the pool exists, calc_stats().num_allocations equals the number
\* of objects new_object returned and the client has not deleted, after every
\* operation; a calc_stats call returns that number.
C1_StatsCountOutstanding ==
    /\ pc # "destroyed" => calc_stats.num_allocations = NumLive
    /\ (pc = "live" /\ last.op = "calc_stats") => last.stats.num_allocations = NumLive

\* calc_stats after deletions in a three-block dynamic pool, and in a fixed pool.
C1_Witness ==
    /\ pool = "Dynamic" /\ last.op = "calc_stats"
    /\ num_blocks_ = 3 /\ entries_per_block_ = 2
    /\ last.stats.num_allocations = 3

\* ----------------------------------------------------------------------- C2
\* C2: every pointer the client holds designates an occupied slot of a block
\* the pool still owns, and new_object never returns a pointer the client
\* still holds, so outstanding pointers are pairwise distinct.
C2_HeldAreOccupied == pc # "destroyed" => \A p \in Live : Occupied(p)

C2_DistinctLive ==
    /\ [](C2_HeldAreOccupied)
    /\ [][(Completes("new_object") /\ last'.ptr # NULL)
             => (last'.ptr \notin Live /\ Live' = Live \cup {last'.ptr})]_vars

\* new_object handed out the first slot of the first block again (it had been
\* freed) while the pool had grown to three blocks.
C2_Witness ==
    /\ pool = "Dynamic" /\ pc = "live" /\ last.op = "new_object" /\ last.ptr # NULL
    /\ entries_per_block_ = 2 /\ num_blocks_ = 3 /\ NumLive = 4
    /\ last.ptr = block_info_[0].offset_

\* ----------------------------------------------------------------------- C3
\* C3: a FixedObjectPool of n entries: new_object succeeds while fewer than n
\* objects are live, and with n live it returns nullptr and changes neither
\* the block (occupancy markers, free list, objects) nor the live set.
C3_FixedCapacity ==
    [][(pool = "Fixed" /\ Completes("new_object"))
          => IF NumLive < entries_per_block_
             THEN last'.ptr # NULL /\ NumLive' = NumLive + 1
             ELSE /\ last'.ptr = NULL
                  /\ heap' = heap /\ block_' = block_ /\ outstanding' = outstanding
                  /\ Fixed_calc_stats' = [num_blocks |-> 1,
                                          num_allocations |-> entries_per_block_]]_vars

\* new_object was refused by a full pool of two entries.
C3_Witness ==
    /\ pool = "Fixed" /\ pc = "live" /\ entries_per_block_ = 2
    /\ last.op = "new_object" /\ last.ptr = NULL /\ NumLive = 2

\* ----------------------------------------------------------------------- C4
\* C4: reclaim_memory leaves the set of live objects, the address and stored
\* value of each, and calc_stats().num_allocations as they were, and every
\* block that holds a live object is still owned and not destroyed.
C4_ReclaimKeepsLive ==
    [][(pool = "Dynamic" /\ Completes("reclaim_memory"))
          => /\ outstanding' = outstanding
             /\ \A p \in Live : /\ Occupied(p)'
                                /\ Deref(p)' = Deref(p)
                                /\ Deref(p)' = outstanding[p]
             /\ Dynamic_calc_stats'.num_allocations = Dynamic_calc_stats.num_allocations
             /\ Dynamic_calc_stats'.num_allocations = NumLive]_vars

\* reclaim_memory released the first of three blocks; the records of the two
\* blocks with live objects moved to the front.
C4_Witness ==
    /\ pool = "Dynamic" /\ pc = "live" /\ last.op = "reclaim_memory"
    /\ entries_per_block_ = 2 /\ num_blocks_ = 2 /\ NumLive = 3
    /\ block_info_[0].block_ = CellAddr(2) /\ block_info_[1].block_ = CellAddr(3)
    /\ Allocated = {2, 3}

\* ----------------------------------------------------------------------- C5
\* The heap cells of the blocks that hold at least one live object.
UsedCells == {CellOf(p) : p \in Live}
OwnedCells == {CellOf(this) : this \in OwnedBlocks}

\* C5: after reclaim_memory the block count is max(1, u), u the number of
\* blocks that held a live object before the call; the blocks kept are the u
\* used ones (or one block if u = 0) and every other block has been released.
C5_ReclaimBlockCount ==
    [][(pool = "Dynamic" /\ Completes("reclaim_memory"))
          => /\ num_blocks_' = Max(1, Cardinality(UsedCells))
             /\ Cardinality(OwnedCells') = num_blocks_'
             /\ UsedCells \subseteq OwnedCells'
             /\ OwnedCells' \subseteq OwnedCells
             /\ Allocated' = OwnedCells']_vars

\* reclaim_memory released the empty middle block of three.
C5_Witness ==
    /\ pool = "Dynamic" /\ pc = "live" /\ last.op = "reclaim_memory"
    /\ num_blocks_ = 2 /\ Allocated = {1, 3} /\ NumLive = 3

\* ----------------------------------------------------------------------- C6
\* No block of the pool has a free slot.
AllFull ==
    \A this \in OwnedBlocks : Block_num_allocations(BlockAt(this), this) = entries_per_block_

\* C6: the block count grows only in new_object, by one, and only if no
\* block had a free slot; when some block has a free slot new_object
\* succeeds in a block that already existed and the count stays.
C6_GrowOnlyWhenFull ==
    [][pool = "Dynamic"
          => /\ (num_blocks_' > num_blocks_)
                   => (Completes("new_object") /\ num_blocks_' = num_blocks_ + 1 /\ AllFull)
             /\ (Completes("new_object") /\ ~AllFull)
                   => /\ num_blocks_' = num_blocks_
                      /\ last'.ptr # NULL
                      /\ CellOf(last'.ptr) \in OwnedCells
                      /\ Allocated' = Allocated]_vars

\* new_object reused a slot of the first block while the third block, added
\* earlier, still had a free slot.
C6_Witness ==
    /\ pool = "Dynamic" /\ pc = "live" /\ last.op = "new_object"
    /\ entries_per_block_ = 2 /\ num_blocks_ = 3
    /\ CellAddr(CellOf(last.ptr)) = block_info_[0].block_
    /\ block_info_[2].num_free_ = 1 /\ NumLive = 5

\* ----------------------------------------------------------------------- C7
\* C7: the block count decreases only in reclaim_memory; delete_object and
\* delete_all keep the block count and release no block.
C7_ShrinkOnlyInReclaim ==
    [][pool = "Dynamic"
          => /\ (num_blocks_' < num_blocks_) => Completes("reclaim_memory")
             /\ (Completes("delete_object") \/ Completes("delete_all"))
                   => /\ num_blocks_' = num_blocks_
                      /\ OwnedBlocks' = OwnedBlocks
                      /\ Allocated' = Allocated]_vars

\* delete_object emptied the last of three blocks; all three are still there.
C7_Witness ==
    /\ pool = "Dynamic" /\ pc = "live" /\ last.op = "delete_object" /\ last.arg # NULL
    /\ num_blocks_ = 3 /\ NumLive = 0 /\ Cardinality(Allocated) = 3

\* ----------------------------------------------------------------------- C8
\* The first and the last block are full and every block between is empty.
MiddleFreed ==
    /\ num_blocks_ >= 3
    /\ \A i \in 0..(num_blocks_ - 1) :
          Block_num_allocations(BlockAt(block_info_[i].block_), block_info_[i].block_)
              = IF i \in {0, num_blocks_ - 1} THEN entries_per_block_ ELSE 0

\* C8: k successful new_object calls in a row on a pool whose b blocks were
\* all empty leave max(b, ceil(k / e)) blocks and k allocations; and once the
\* objects of the middle blocks of a full pool are freed, reclaim_memory
\* leaves two blocks and 2 * e allocations.
C8_RunInv ==
    (pool = "Dynamic" /\ run.b # 0)
        => /\ num_blocks_ = Max(run.b, CeilDiv(run.k, entries_per_block_))
           /\ Dynamic_calc_stats.num_allocations = run.k

C8_FillFromEmpty ==
    /\ [](C8_RunInv)
    /\ [][(pool = "Dynamic" /\ Completes("reclaim_memory") /\ MiddleFreed)
             => /\ num_blocks_' = 2
                /\ Dynamic_calc_stats'.num_allocations = 2 * entries_per_block_]_vars

\* Five allocations in a row after delete_all left two empty blocks.
C8_Witness ==
    /\ pool = "Dynamic" /\ pc = "live" /\ entries_per_block_ = 2
    /\ run.b = 2 /\ run.k = 5 /\ num_blocks_ = 3

\* ----------------------------------------------------------------------- C9
\* C9: delete_all leaves zero allocations and the same blocks; in the dynamic
\* pool every free count is entries_per_block and the cursor is 0.
C9_DeleteAll ==
    [][Completes("delete_all")
          => /\ calc_stats'.num_allocations = 0
             /\ calc_stats'.num_blocks = calc_stats.num_blocks
             /\ OwnedBlocks' = OwnedBlocks
             /\ Allocated' = Allocated
             /\ Live' = {}
             /\ \A this \in OwnedBlocks :
                   Block_num_allocations(BlockAt(this), this)' = 0
             /\ pool = "Dynamic"
                   => /\ num_blocks_' = num_blocks_
                      /\ free_block_index_' = 0
                      /\ \A i \in 0..(num_blocks_ - 1) :
                            block_info_'[i].num_free_ = entries_per_block_]_vars

\* delete_all on a dynamic pool of three blocks.
C9_Witness ==
    /\ pool = "Dynamic" /\ pc = "live" /\ last.op = "delete_all"
    /\ entries_per_block_ = 2 /\ num_blocks_ = 3

\* ---------------------------------------------------------------------- C10
\* The index of the block (0 in the fixed pool) whose payload holds p.
BlockIndexOf(p) ==
    IF pool = "Fixed" THEN 0
    ELSE IF \E i \in 0..(num_blocks_ - 1) : IsSlotOf(p, block_info_[i].block_)
    THEN CHOOSE i \in 0..(num_blocks_ - 1) : IsSlotOf(p, block_info_[i].block_)
    ELSE num_blocks_

VisitedBefore(p, q) ==
    \/ BlockIndexOf(p) < BlockIndexOf(q)
    \/ BlockIndexOf(p) = BlockIndexOf(q) /\ SlotOf(p) < SlotOf(q)

\* C10: for_each hands the visitor every live object once and nothing else,
\* in ascending block index and, within a block, ascending slot index.
C10_ForEachVisitsLive ==
    (pc = "live" /\ last.op = "for_each")
        => /\ {last.visited[i] : i \in DOMAIN last.visited} = Live
           /\ Len(last.visited) = NumLive
           /\ \A i \in DOMAIN last.visited : Occupied(last.visited[i])
           /\ \A i, j \in DOMAIN last.visited :
                 i < j => VisitedBefore(last.visited[i], last.visited[j])

\* for_each over three blocks, the middle one empty and skipped.
C10_Witness ==
    /\ pool = "Dynamic" /\ pc = "live" /\ last.op = "for_each"
    /\ entries_per_block_ = 2 /\ num_blocks_ = 3
    /\ block_info_[1].num_free_ = 2 /\ Len(last.visited) = 3

\* ---------------------------------------------------------------------- C11
\* C11: as long as an object is live, reading through its pointer yields the
\* value it was constructed with, its slot stays occupied at the same address,
\* and for_each hands the visitor pointers that read those values, whatever
\* new_object and delete_object calls were made for other objects.
C11_ValueKept ==
    pc # "destroyed"
        => /\ \A p \in Live : Occupied(p) /\ Deref(p) = outstanding[p]
           /\ (pc = "live" /\ last.op = "for_each")
                 => \A i \in DOMAIN last.visited :
                       /\ last.visited[i] \in Live
                       /\ Deref(last.visited[i]) = outstanding[last.visited[i]]

\* An object with each of the two values is live after another object of the
\* same block was deleted.
C11_Witness ==
    /\ pc = "live" /\ last.op = "delete_object" /\ last.arg # NULL
    /\ entries_per_block_ = 2 /\ NumLive = 3
    /\ CellOf(last.arg) \in UsedCells
    /\ {outstanding[p] : p \in Live} = Values

\* ---------------------------------------------------------------------- C12
\* The slot addresses of block this.
SlotsOf(this) ==
    {memory_begin(this, entries_per_block_) + i * SizeofT : i \in 0..(entries_per_block_ - 1)}

\* The slots of owned blocks that hold no object.
FreeSlots == {p \in UNION {SlotsOf(this) : this \in OwnedBlocks} : ~Occupied(p)}

\* C12: while some slot of an owned block is free, new_object returns one of
\* the free slots, that slot alone leaves the free set, and no block is added
\* or released; so after slots of a full block were deleted, as many
\* new_object calls return exactly the freed addresses, each once.
C12_ReuseFreed ==
    [][(Completes("new_object") /\ FreeSlots # {})
          => /\ last'.ptr \in FreeSlots
             /\ FreeSlots' = FreeSlots \ {last'.ptr}
             /\ calc_stats'.num_blocks = calc_stats.num_blocks
             /\ OwnedBlocks' = OwnedBlocks
             /\ Allocated' = Allocated]_vars

\* The second slot of the first block was handed out again while both blocks
\* were otherwise full: it had been deleted after the pool had grown.
C12_Witness ==
    /\ pool = "Dynamic" /\ pc = "live" /\ last.op = "new_object"
    /\ entries_per_block_ = 2 /\ num_blocks_ = 2 /\ NumLive = 4
    /\ last.ptr = block_info_[0].offset_ + SizeofT

\* ---------------------------------------------------------------------- C13
\* The address of slot k mod entries_per_block of block floor(k / entries_per_block).
FreshSlot(k) ==
    LET b == k \div entries_per_block_
        this == IF pool = "Fixed" THEN block_ ELSE block_info_[b].block_
    IN memory_begin(this, entries_per_block_) + (k % entries_per_block_) * SizeofT

\* C13: in a pool as constructed, with no deletion so far, the k-th
\* successful new_object (k = 0, 1, ...) returns slot k mod entries_per_block
\* of block floor(k / entries_per_block) (block 0 in the fixed pool), so that
\* within a block consecutive allocations are sizeof(T) apart, ascending.
C13_FreshOrder ==
    pc # "destroyed"
        => /\ pool = "Dynamic" => CeilDiv(NumLive, entries_per_block_) <= num_blocks_
           /\ Live = {FreshSlot(k) : k \in 0..(NumLive - 1)}
           /\ (pc = "live" /\ last.op = "new_object" /\ last.ptr # NULL)
                 => last.ptr = FreshSlot(NumLive - 1)

\* The fifth allocation of a fresh pool of two entries per block landed in
\* the first slot of the third block.
C13_Witness ==
    /\ pool = "Dynamic" /\ pc = "live" /\ last.op = "new_object"
    /\ entries_per_block_ = 2 /\ NumLive = 5 /\ num_blocks_ = 3
    /\ last.ptr = block_info_[2].offset_

\* ---------------------------------------------------------------------- C14
\* C14: a DynamicObjectPool holds at least one block in every state from the
\* end of construction on (a constructor that returned).
C14_AtLeastOneBlock ==
    (pool = "Dynamic" /\ pc # "undefined")
        => (num_blocks_ >= 1 /\ Cardinality(OwnedCells) >= 1)

\* ---------------------------------------------------------------------- C15
\* C15: a new_object call of a DynamicObjectPool that returns nullptr (every
\* block full, block creation failed) leaves the pool as it was: block count,
\* block records with their free counts, block contents and free-block cursor.
C15_FailedGrowthKeepsState ==
    [][(pool = "Dynamic" /\ Completes("new_object") /\ last'.ptr = NULL)
          => /\ num_blocks_' = num_blocks_
             /\ block_info_' = block_info_
             /\ heap' = heap
             /\ free_block_index_' = free_block_index_]_vars

\* ---------------------------------------------------------------------- C16
\* delete_object(nullptr) would pass every assertion and touch no block.
NullAccepted ==
    IF pool = "Fixed"
    THEN Block_delete_object(BlockAt(block_), block_, NULL)
             = [block |-> BlockAt(block_), failed |-> "none"]
    ELSE delete_object_scan(block_info_, num_blocks_, 0, NULL) = num_blocks_

\* C16: delete_object(nullptr) fails no assertion and leaves the blocks, the
\* block records and free counts, the cursor, the block count, the live
\* objects and the statistics as they were, in both pools.
C16_DeleteNullNoOp ==
    /\ [](pc = "live" => NullAccepted)
    /\ [][(Completes("delete_object") /\ last'.arg = NULL)
             => /\ heap' = heap /\ block_' = block_
                /\ block_info_' = block_info_ /\ num_blocks_' = num_blocks_
                /\ free_block_index_' = free_block_index_
                /\ outstanding' = outstanding
                /\ calc_stats' = calc_stats
                /\ pc' = pc /\ assert_failed' = assert_failed]_vars

\* delete_object(nullptr) on a pool of three blocks with a raised cursor.
C16_Witness ==
    /\ pool = "Dynamic" /\ pc = "live" /\ ~ndebug
    /\ last.op = "delete_object" /\ last.arg = NULL
    /\ num_blocks_ = 3 /\ NumLive = 4 /\ free_block_index_ = 2

\* ------------------------------------------------------------- C17 and C18
\* ptr lies in the payload range of block this.
InPayload(ptr, this) ==
    /\ ptr >= memory_begin(this, entries_per_block_)
    /\ ptr < memory_begin(this, entries_per_block_) + entries_per_block_ * SizeofT

\* ptr is not null and lies in no block the pool owns.
Foreign(ptr) == ptr # NULL /\ \A this \in OwnedBlocks : ~InPayload(ptr, this)

\* Pointers a misusing client may come up with: slot addresses of any heap cell
\* and of a region outside the heap.
WildPtrs == UNION {SlotsOf(CellAddr(c)) : c \in 1..(MaxBlocks + 1)}

\* The misusing client of a debug build: it keeps the pointers it deleted and
\* passes delete_object a pointer it holds, nullptr, a stale pointer or a
\* pointer into no block of the pool.
InitMisuse ==
    \E kind \in {"Fixed", "Dynamic"}, e \in 1..MaxEntries :
        /\ \E this \in EmptyHeapAddrs(e) \ {NULL} : InitPool(kind, FALSE, e, this)
        /\ stale = [track |-> TRUE, ptrs |-> {}]

MisusePtrs == Ptrs \cup stale.ptrs \cup {p \in WildPtrs : Foreign(p)}

NextMisuse ==
    \/ \E val \in Values : CanHoldMore /\ Fixed_new_object(val)
    \/ \E ptr \in MisusePtrs : Fixed_delete_object(ptr)
    \/ Fixed_delete_all
    \/ Fixed_destructor
    \/ \E val \in Values :
          CanHoldMore /\ Dynamic_new_object(val, create(entries_per_block_), TRUE)
    \/ \E ptr \in MisusePtrs : Dynamic_delete_object(ptr)
    \/ Dynamic_delete_all
    \/ Dynamic_reclaim_memory(TRUE)
    \/ Dynamic_destructor

SpecMisuse == InitMisuse /\ [][NextMisuse]_vars

\* C17: in a debug build no delete_object call completes for a pointer that
\* was deleted (by delete_object or delete_all) and not returned by new_object
\* since: an assertion stops it, in both pools, whatever ran in between.
C17_DoubleFreeCaught ==
    [][~(~ndebug /\ Completes("delete_object") /\ last'.arg \in stale.ptrs)]_vars

\* C18: in a debug build no delete_object call completes for a non-null
\* pointer that lies in no block the pool owns: an assertion stops it.
C18_ForeignCaught ==
    [][~(~ndebug /\ Completes("delete_object") /\ Foreign(last'.arg))]_vars

\* ---------------------------------------------------------------------- C19
\* C19: the first payload slot of a created block lies at a multiple of
\* max(alignof(T), MIN_BLOCK_ALIGN), for every entries_per_block.
C19_PayloadCacheAligned ==
    lay.this # NULL
        => memory_begin(lay.this, lay.block.entries_per_block_)
               % Max(lay.T.align, MIN_BLOCK_ALIGN) = 0

\* ---------------------------------------------------------------------- C20
\* C20: every pointer new_object returns is a multiple of alignof(T), for
\* every element alignment and every entries_per_block.
C20_ObjectsAligned ==
    lay.ptr # NULL => lay.ptr % lay.T.align = 0

\* ---------------------------------------------------------------------- C21
\* The free list of block b followed from slot i for at most fuel links; -1
\* marks a link that leaves the table or a list longer than the table.
RECURSIVE FreeListFrom(_, _, _)
FreeListFrom(b, i, fuel) ==
    IF i = b.entries_per_block_ THEN << >>
    ELSE IF fuel = 0 \/ i \notin DOMAIN b.indices THEN << -1 >>
    ELSE << i >> \o FreeListFrom(b, b.indices[i], fuel - 1)

FreeList(b) == FreeListFrom(b, b.free_head_index_, b.entries_per_block_)

\* The slots of block this whose object the client holds.
HeldSlots(this) == {SlotOf(p) : p \in {q \in Live : IsSlotOf(q, this)}}

\* C21: in every block of the pool indices[i] = i exactly for the occupied
\* slots, and the free list from free_head_index_ runs through every free
\* slot once, through no occupied slot, and ends at entries_per_block.
C21_FreeListSound ==
    pc # "destroyed"
        => \A this \in OwnedBlocks :
              LET b == BlockAt(this)
                  fl == FreeList(b)
                  free == DOMAIN b.indices \ HeldSlots(this)
              IN /\ \A i \in DOMAIN b.indices :
                       /\ (b.indices[i] = i) <=> (i \in HeldSlots(this))
                       /\ (b.indices[i] = i) <=> (b.memory[i] # NoObj)
                 /\ {fl[k] : k \in DOMAIN fl} = free
                 /\ Len(fl) = Cardinality(free)

\* Both slots of a block were allocated and then deleted in allocation
\* order: the free list runs 1, 0.
C21_Witness ==
    /\ pool = "Fixed" /\ pc = "live" /\ entries_per_block_ = 2
    /\ FreeList(BlockAt(block_)) = << 1, 0 >>

\* ---------------------------------------------------------------------- C22
RECURSIVE SumUsed(_)
SumUsed(i) ==
    IF i = num_blocks_ THEN 0
    ELSE (entries_per_block_ - block_info_[i].num_free_) + SumUsed(i + 1)

\* C22: every BlockInfo record caches entries_per_block minus the number of
\* occupied slots of its block, so calc_stats().num_allocations is the sum
\* of entries_per_block - num_free_ over the records.
C22_FreeCountExact ==
    (pool = "Dynamic" /\ pc # "destroyed")
        => /\ \A i \in 0..(num_blocks_ - 1) :
                 LET this == block_info_[i].block_ IN
                 /\ block_info_[i].num_free_
                        = entries_per_block_ - Block_num_allocations(BlockAt(this), this)
                 /\ block_info_[i].num_free_
                        = entries_per_block_ - Cardinality(HeldSlots(this))
           /\ Dynamic_calc_stats.num_allocations = SumUsed(0)

\* reclaim_memory moved the record of the third block, half full, to the
\* front and released the two empty blocks before it.
C22_Witness ==
    /\ pool = "Dynamic" /\ pc = "live" /\ last.op = "reclaim_memory"
    /\ entries_per_block_ = 2 /\ num_blocks_ = 1
    /\ block_info_[0].block_ = CellAddr(3) /\ block_info_[0].num_free_ = 1

\* ---------------------------------------------------------------------- C23
\* C23: free_block_index_ never exceeds num_blocks_ and every block below it
\* is full: its num_free_ is 0 and all its slots are occupied.
C23_BelowCursorFull ==
    (pool = "Dynamic" /\ pc # "destroyed")
        => /\ free_block_index_ <= num_blocks_
           /\ \A i \in 0..(free_block_index_ - 1) :
                 /\ block_info_[i].num_free_ = 0
                 /\ Block_num_allocations(BlockAt(block_info_[i].block_),
                                          block_info_[i].block_) = entries_per_block_

\* reclaim_memory on a pool whose first block is full and whose second block
\* has a free slot left the cursor at 1.
C23_Witness ==
    /\ pool = "Dynamic" /\ pc = "live" /\ last.op = "reclaim_memory"
    /\ entries_per_block_ = 2 /\ num_blocks_ = 2 /\ free_block_index_ = 1
    /\ block_info_[1].num_free_ = 1

\* ---------------------------------------------------------------------- C24
\* C24 as stated: on every successful new_object of a DynamicObjectPool the
\* cursor after the call is at most the cursor before the call plus 1.
C24_CursorStepAtMostOne ==
    [][(pool = "Dynamic" /\ Completes("new_object") /\ last'.ptr # NULL)
          => free_block_index_' <= free_block_index_ + 1]_vars

\* C24 amended: on every successful new_object the cursor after the call is
\* the index of the first block at or after the previous cursor with a free
\* slot, or of the block just added when there was none: it is not below
\* the previous cursor, not above the previous block count, every block
\* passed over is full, and the object lies in the block it designates.
C24_CursorAdvance ==
    [][(pool = "Dynamic" /\ Completes("new_object") /\ last'.ptr # NULL)
          => /\ free_block_index_' >= free_block_index_
             /\ free_block_index_' <= num_blocks_
             /\ free_block_index_' < num_blocks_'
             /\ \A i \in free_block_index_..(free_block_index_' - 1) :
                   /\ block_info_[i].num_free_ = 0
                   /\ Block_num_allocations(BlockAt(block_info_[i].block_),
                                            block_info_[i].block_) = entries_per_block_
             /\ free_block_index_' < num_blocks_
                   => block_info_[free_block_index_'].num_free_ > 0
             /\ IsSlotOf(last'.ptr, block_info_'[free_block_index_'].block_)]_vars

\* new_object filled the last of three one-entry blocks and left the cursor
\* on it; the two blocks before it are full.
C24_Witness ==
    /\ pool = "Dynamic" /\ pc = "live" /\ last.op = "new_object"
    /\ entries_per_block_ = 1 /\ num_blocks_ = 3 /\ free_block_index_ = 2
    /\ last.ptr = block_info_[2].offset_ /\ run = NoRun

\* ---------------------------------------------------------------------- C25
\* C25: the entry assertion of DynamicObjectPool::new_object,
\* free_block_index_ < num_blocks_, holds whenever the client may call it
\* (after any sequence of new_object, delete_object, delete_all and
\* reclaim_memory), so no call stops on it.
C25_EntryAssertionHolds ==
    /\ (pool = "Dynamic" /\ pc = "live") => free_block_index_ < num_blocks_
    /\ assert_failed # "free_block_index_ < num_blocks_"

\* ---------------------------------------------------------------------- C26
\* Block i of the pool has a slot that holds no object.
HasFreeSlot(i) ==
    Block_num_allocations(BlockAt(block_info_[i].block_), block_info_[i].block_)
        < entries_per_block_

\* C26: the object a successful DynamicObjectPool::new_object returns lies in
\* the lowest-indexed block that had a free slot, over all blocks: every block
\* before the one it was placed in is full (the call changed none of them),
\* and the cursor points at the block it was placed in.
C26_LowestBlockWithSpace ==
    (pool = "Dynamic" /\ pc = "live" /\ last.op = "new_object" /\ last.ptr # NULL)
        => /\ BlockIndexOf(last.ptr) < num_blocks_
           /\ BlockIndexOf(last.ptr) = free_block_index_
           /\ \A i \in 0..(BlockIndexOf(last.ptr) - 1) :
                 ~HasFreeSlot(i) /\ block_info_[i].num_free_ = 0

\* Both blocks had been emptied by delete_object, the second one first or
\* last; new_object used block 0 and block 1 still has its slot free.
C26_Witness ==
    /\ pool = "Dynamic" /\ pc = "live" /\ last.op = "new_object"
    /\ entries_per_block_ = 1 /\ num_blocks_ = 2
    /\ last.ptr = block_info_[0].offset_
    /\ HasFreeSlot(1) /\ NumLive = 1

\* ---------------------------------------------------------------------- C27
\* C27: between operations free_block_index_ of a DynamicObjectPool
\* designates a block that exists and has num_free_ > 0, and no block before
\* it has free space.
C27_CursorHasSpace ==
    (pool = "Dynamic" /\ pc = "live")
        => /\ free_block_index_ \in 0..(num_blocks_ - 1)
           /\ block_info_[free_block_index_].num_free_ > 0
           /\ \A i \in 0..(free_block_index_ - 1) : block_info_[i].num_free_ = 0

\* ---------------------------------------------------------------------- C28
\* C28: the assertion ptr != nullptr of DynamicObjectPool::new_object never
\* fails: in every state the block of every record with num_free_ > 0 hands
\* out a slot when asked, and so does a block that was just created; no call
\* has stopped on that assertion or on the one inside the block.
C28_SelectedBlockHasSlot ==
    /\ assert_failed \notin {"ptr != nullptr", "indices[index] != index"}
    /\ (pool = "Dynamic" /\ pc # "destroyed")
          => /\ \A i \in 0..(num_blocks_ - 1) :
                   block_info_[i].num_free_ > 0
                     => LET r == Block_new_object(BlockAt(block_info_[i].block_),
                                                  block_info_[i].block_, TestValue1)
                        IN r.ptr # NULL /\ r.failed = "none"
                           /\ IsSlotOf(r.ptr, block_info_[i].block_)
                           /\ r.ptr \notin Live
             /\ \A c \in Cells :
                   LET r == Block_new_object(ObjectPoolBlock(entries_per_block_),
                                             CellAddr(c), TestValue1)
                   IN r.ptr # NULL /\ r.failed = "none"

\* new_object selected a block whose record said one slot was left, a slot
\* freed by delete_object, and got that slot.
C28_Witness ==
    /\ pool = "Dynamic" /\ pc = "live" /\ last.op = "new_object" /\ last.ptr # NULL
    /\ entries_per_block_ = 2 /\ num_blocks_ = 2 /\ run = NoRun
    /\ BlockIndexOf(last.ptr) = 0 /\ SlotOf(last.ptr) = 1
    /\ block_info_[0].num_free_ = 0 /\ block_info_[1].num_free_ = 1

\* ---------------------------------------------------------------------- C29
\* The used records of info from index i on, in their order.
RECURSIVE UsedRecords(_, _, _)
UsedRecords(info, n, i) ==
    IF i = n THEN << >>
    ELSE (IF info[i].num_free_ # entries_per_block_ THEN << info[i] >> ELSE << >>)
         \o UsedRecords(info, n, i + 1)

\* C29: the swap scan of reclaim_memory is a stable partition: it permutes
\* the records so that the used ones form a prefix in their original order
\* and the empty ones follow, used_index ends on the last used record, the
\* pool keeps exactly that prefix, and for_each visits the same objects in
\* the same order after reclaim_memory as before it.
C29_StablePartition ==
    [][(pool = "Dynamic" /\ Completes("reclaim_memory"))
          => LET n == num_blocks_
                 s == reclaim_shuffle(block_info_, n, 0, n, n)
                 used == UsedRecords(block_info_, n, 0)
                 k == Len(used)
             IN /\ \A j \in 0..(k - 1) : s.info[j] = used[j + 1]
                /\ \A j \in k..(n - 1) : s.info[j].num_free_ = entries_per_block_
                /\ DOMAIN s.info = DOMAIN block_info_
                /\ {s.info[j] : j \in 0..(n - 1)} = {block_info_[j] : j \in 0..(n - 1)}
                /\ s.used_index = (IF k = 0 THEN n ELSE k - 1)
                /\ num_blocks_' = Max(1, k)
                /\ \A j \in 0..(k - 1) : block_info_'[j] = used[j + 1]
                /\ Dynamic_for_each_visits' = Dynamic_for_each_visits]_vars

\* Of three one-entry blocks the first was emptied; reclaim_memory moved the
\* second and the third to the front, in that order, and released the first.
C29_Witness ==
    /\ pool = "Dynamic" /\ pc = "live" /\ last.op = "reclaim_memory"
    /\ entries_per_block_ = 1 /\ num_blocks_ = 2
    /\ block_info_[0].block_ = CellAddr(2) /\ block_info_[1].block_ = CellAddr(3)
    /\ Dynamic_for_each_visits = << block_info_[0].offset_, block_info_[1].offset_ >>

\* ---------------------------------------------------------------------- C30
\* C30: in every state of a DynamicObjectPool that has not been destroyed,
\* after reclaim_memory in particular, every record in [0, num_blocks_)
\* refers to a block that is still allocated, with the payload address of
\* that block; no two records refer to one block; the allocated blocks are
\* exactly the ones the records refer to, so a block the pool created is
\* either referred to by one record or has been released; and the search of
\* delete_object finds, for every live pointer, the record of its block.
C30_RecordsOwnBlocks ==
    (pool = "Dynamic" /\ pc # "destroyed")
        => /\ DOMAIN block_info_ = 0..(num_blocks_ - 1)
           /\ \A i \in 0..(num_blocks_ - 1) :
                 /\ block_info_[i].block_ \in {CellAddr(c) : c \in Allocated}
                 /\ block_info_[i].offset_
                       = memory_begin(block_info_[i].block_, entries_per_block_)
                 /\ BlockAt(block_info_[i].block_).entries_per_block_ = entries_per_block_
                 /\ \A j \in 0..(num_blocks_ - 1) :
                       block_info_[i].block_ = block_info_[j].block_ => i = j
           /\ Allocated = OwnedCells
           /\ Cardinality(Allocated) = num_blocks_
           /\ \A p \in Live :
                 LET i == delete_object_scan(block_info_, num_blocks_, 0, p)
                 IN /\ i < num_blocks_
                    /\ IsSlotOf(p, block_info_[i].block_)
                    /\ Block_delete_object(BlockAt(block_info_[i].block_),
                                           block_info_[i].block_, p).failed = "none"

\* reclaim_memory released the first of two blocks and kept the second, which
\* holds the one live object; delete_object would find it in record 0.
C30_Witness ==
    /\ pool = "Dynamic" /\ pc = "live" /\ last.op = "reclaim_memory"
    /\ entries_per_block_ = 2 /\ num_blocks_ = 1 /\ NumLive = 1
    /\ block_info_[0].block_ = CellAddr(2) /\ Allocated = {2}
    /\ \A p \in Live : delete_object_scan(block_info_, num_blocks_, 0, p) = 0

\* ---------------------------------------------------------------------- C31
\* The index the release loop of reclaim_memory would start at in this state.
ReleaseStart ==
    LET s == reclaim_shuffle(block_info_, num_blocks_, 0, num_blocks_, num_blocks_)
    IN (IF s.used_index = num_blocks_ THEN 0 ELSE s.used_index) + 1

\* C31: in every reachable state of a DynamicObjectPool the release loop of
\* reclaim_memory starts at an index <= num_blocks_, so it ends at
\* num_blocks_ having destroyed blocks of the array only.
C31_ReleaseLoopEnds ==
    (pool = "Dynamic" /\ pc = "live") => ReleaseStart <= num_blocks_

\* ---------------------------------------------------------------------- C32
\* The pointers k new_object calls in a row on block b at address this return.
RECURSIVE Refill(_, _, _)
Refill(b, this, k) ==
    IF k = 0 THEN << >>
    ELSE LET r == Block_new_object(b, this, TestValue1)
         IN << r.ptr >> \o Refill(r.block, this, k - 1)

\* C32: after delete_all every block of the pool is in the state of a block
\* just constructed (free_head_index_ = 0, indices[i] = i + 1, no object),
\* whatever was allocated and freed before; new_object calls on such a block
\* return slots 0, 1, 2, ... in ascending order, the search of a
\* DynamicObjectPool starts at block 0, and the new_object call that follows
\* delete_all returns slot 0 of block 0; no call that follows fails an
\* assertion.
C32_DeleteAllFresh ==
    [][(pc = "live" /\ last.op = "delete_all")
          => /\ \A this \in OwnedBlocks :
                   /\ BlockAt(this) = ObjectPoolBlock(entries_per_block_)
                   /\ Refill(BlockAt(this), this, entries_per_block_)
                         = [k \in 1..entries_per_block_ |->
                               memory_begin(this, entries_per_block_) + (k - 1) * SizeofT]
             /\ pool = "Dynamic"
                   => /\ free_block_index_ = 0
                      /\ new_object_scan(block_info_, num_blocks_, free_block_index_) = 0
             /\ Completes("new_object") => last'.ptr = FreshSlot(0)
             /\ pc' # "aborted"]_vars

\* delete_all on a dynamic pool of two blocks: both blocks are as constructed.
C32_Witness ==
    /\ pool = "Dynamic" /\ pc = "live" /\ last.op = "delete_all"
    /\ entries_per_block_ = 2 /\ num_blocks_ = 2
    /\ \A i \in 0..1 : BlockAt(block_info_[i].block_) = ObjectPoolBlock(2)

\* ---------------------------------------------------------------------- C33
\* The slots of allocated blocks that hold a constructed object whose
\* destructor has not run.
Constructed ==
    {p \in UNION {SlotsOf(CellAddr(c)) : c \in Allocated} : Deref(p) # NoObj}

\* C33: every object new_object constructed is destructed once, by its
\* delete_object, by delete_all or by the destruction of its block: while the
\* pool exists the constructed objects are exactly the ones handed out and
\* not deleted since, each in a slot marked occupied, and once the pool has
\* been destroyed no constructed object is left.
C33_DestructedOnce ==
    /\ pc # "destroyed" => (Constructed = Live /\ \A p \in Constructed : Occupied(p))
    /\ pc = "destroyed" => Constructed = {}

\* ---------------------------------------------------------------------- C34
\* C34: after the destructor of a FixedObjectPool or DynamicObjectPool with
\* zero live allocations has run, no block the pool created is allocated.
C34_BlocksReleased ==
    (pc = "destroyed" /\ NumLive = 0) => Allocated = {}

\* ---------------------------------------------------------------------- C35
\* The slot addresses of block this in the order of its free list.
FreeAddrs(this) ==
    [k \in 1..Len(FreeList(BlockAt(this))) |->
        memory_begin(this, entries_per_block_) + FreeList(BlockAt(this))[k] * SizeofT]

\* C35: within a block freed slots are reused last-freed-first: delete_object
\* puts the freed slot in front of the block's free list and changes nothing
\* else of it, new_object takes the first slot of the list, and the list is
\* the order in which new_object calls in a row return the slots; so on a
\* FixedObjectPool new_object right after delete_object(p) returns p, and
\* after deleting p1, ..., pk the next k calls return pk, ..., p1.
C35_LastFreedFirst ==
    [][pc = "live"
          => /\ \A this \in OwnedBlocks :
                   /\ Refill(BlockAt(this), this, Len(FreeAddrs(this))) = FreeAddrs(this)
                   /\ (Completes("delete_object") /\ IsSlotOf(last'.arg, this))
                         => FreeAddrs(this)' = << last'.arg >> \o FreeAddrs(this)
                   /\ (Completes("new_object") /\ IsSlotOf(last'.ptr, this))
                         => /\ last'.ptr = Head(FreeAddrs(this))
                            /\ FreeAddrs(this)' = Tail(FreeAddrs(this))
             /\ (pool = "Fixed" /\ last.op = "delete_object" /\ last.arg # NULL
                   /\ Completes("new_object"))
                   => last'.ptr = last.arg]_vars

\* Both objects of a fixed pool of two were deleted, slot 0 first; the next
\* new_object returned slot 1, the one deleted last.
C35_Witness ==
    /\ pool = "Fixed" /\ pc = "live" /\ last.op = "new_object"
    /\ entries_per_block_ = 2
    /\ last.ptr = memory_begin(block_, 2) + SizeofT
    /\ Live = {last.ptr}

\* ---------------------------------------------------------------------- C36
\* The pool is as DynamicObjectPool(entries_per_block_) leaves it when its
\* block was created at address this.
FreshAt(this) ==
    /\ num_blocks_ = 1
    /\ block_info_ = add_block(<< >>, 0, 0, this, TRUE).info
    /\ free_block_index_ = 0
    /\ heap = [c \in Cells |-> IF c = CellOf(this)
                                THEN ObjectPoolBlock(entries_per_block_) ELSE NoBlock]
    /\ outstanding = << >>

\* C36: delete_all followed by reclaim_memory leaves a DynamicObjectPool as a
\* freshly constructed one: one block (the one that was first), no
\* allocation, num_free_ = entries_per_block, cursor 0, every other block
\* released, and a block that hands out slots 0, 1, 2, ... in order.
C36_DeleteAllReclaimFresh ==
    [][(pool = "Dynamic" /\ pc = "live" /\ last.op = "delete_all"
          /\ last'.op = "reclaim_memory")
          => /\ pc' = "live"
             /\ FreshAt(block_info_[0].block_)'
             /\ block_info_'[0].block_ = block_info_[0].block_
             /\ block_info_'[0].num_free_ = entries_per_block_
             /\ Dynamic_calc_stats' = [num_blocks |-> 1, num_allocations |-> 0]
             /\ Refill(BlockAt(block_info_[0].block_), block_info_[0].block_,
                       entries_per_block_)'
                   = [k \in 1..entries_per_block_ |->
                         block_info_[0].offset_ + (k - 1) * SizeofT]]_vars

\* delete_all and reclaim_memory on a pool whose first block was the second
\* one created: that block alone is left, as constructed.
C36_Witness ==
    /\ pool = "Dynamic" /\ pc = "live" /\ last.op = "reclaim_memory"
    /\ entries_per_block_ = 2
    /\ FreshAt(CellAddr(2))

\* ---------------------------------------------------------------------- C37
\* C37: both layout assertions of ObjectPoolBlock::create hold for every
\* entries_per_block >= 1 and every entry alignment in {1, 2, 4, 8, 16}: no
\* create stops on either, and in a created block indices_begin() is at
\* base + header_size and memory_begin() at base + header_size + indices_size.
C37_LayoutAssertionsHold ==
    /\ assert_failed \notin {"ptr->indices_begin() == ptr + header_size",
                             "ptr->memory_begin() == ptr + header_size + indices_size"}
    /\ lay.this # NULL
          => /\ indices_begin(lay.this) = lay.this + header_size
             /\ memory_begin(lay.this, lay.block.entries_per_block_)
                   = lay.this + header_size
                       + T_indices_size(lay.T, lay.block.entries_per_block_)

====
